---- MODULE Spec2Model ----
(***************************************************************************)
(* Model of Transports::IridiumSBD::Task (src/Transports/IridiumSBD/       *)
(* Task.cpp): the transmission queue, the active request slot and the      *)
(* per-cycle decision of processQueue, against a modem driver that runs    *)
(* one session at a time.                                                  *)
(***************************************************************************)
EXTENDS Integers, Sequences, FiniteSets, TLC

\* ------------------------------------------------------------------ bounds
\* Number of IridiumMsgTx messages that arrive in one behaviour.
MaxReqs == 3
\* Largest sequence number the driver hands out or reports.
MaxMSN == 3
\* Ticks of the mailbox check timer until it overflows.
MboxTop == 1
\* Longest sequence of enqueues in the ordering specification.
MaxOrd == 4

\* Values of time_to_live carried by arriving messages.
TTLs == {1, 2}
\* Values of time_to_live in the ordering specification.
OrdTTLs == {1, 3, 5}
\* Payload of the k-th arriving message: payloads are opaque to the task, and
\* distinct ones tell the requests apart.
Payloads(k) == {<<k>>}
\* MO status codes of a session result: 0 for a success, 7 for a failure.
StatusesMO == {0, 7}
\* MT status codes of a session result (1: a message was received).
StatusesMT == {0, 1}
\* Outcomes of Driver::readBufferMT: the bytes read.
ReadsMT == {<<0, 1>>, <<0, 1, 170, 187, 204>>}

\* The MO buffer with nothing in it.
EmptyBuffer == <<>>

\* The null pointer.
NULL == 0

VARIABLES
  heap,                \* the TxRequest objects allocated so far, by address
  m_tx_requests,       \* Task::m_tx_requests, a list of addresses
  m_tx_request,        \* Task::m_tx_request, an address or NULL
  m_mbox_check_timer,  \* Task::m_mbox_check_timer, time elapsed since reset
  drv_busy,            \* Driver: a session is executing
  drv_has_result,      \* Driver: a session result is available
  drv_result,          \* Driver: the session result
  drv_momsn,           \* Driver: next MO sequence number
  drv_mo_buffer,       \* Driver: contents of the MO buffer
  out,                 \* what the last step dispatched or asked of the driver
  stopped,             \* the task has been destroyed
  ord_in,              \* ordering specification: TTLs still to enqueue
  ord_out              \* ordering specification: addresses dequeued

vars == <<heap, m_tx_requests, m_tx_request, m_mbox_check_timer, drv_busy,
          drv_has_result, drv_result, drv_momsn, drv_mo_buffer, out, stopped,
          ord_in, ord_out>>

\* ------------------------------------------------------------ TxRequest
\* A TxRequest as constructed by consume: no sequence number yet.
NewTxRequest(ttl, data) ==
  [ttl |-> ttl, data |-> data, msn |-> 0, msn_valid |-> FALSE, freed |-> FALSE]

\* TxRequest::setMSN
setMSN(h, r, msn) == [h EXCEPT ![r].msn = msn, ![r].msn_valid = TRUE]

\* TxRequest::invalidateMSN
invalidateMSN(h, r) == [h EXCEPT ![r].msn_valid = FALSE]

\* delete of a TxRequest
Delete(h, r) == [h EXCEPT ![r].freed = TRUE]

\* ------------------------------------------------------------- outputs
\* A dispatched message or a call of the driver: a status carries its request,
\* its code, its text and the number formatted into the text; sendSBD carries the
\* payload as code; IridiumMsgRx carries the payload as code and the source
\* address as arg; getSessionResult carries the MO outcome as code and the MO
\* sequence number as arg; readBufferMT carries the bytes read as code; a
\* getter of the driver carries its answer, as code (yes, no) or as arg.
Event(type, req, code, arg) ==
  [type |-> type, req |-> req, code |-> code, text |-> "", arg |-> arg]

\* The state a handler works on.
State ==
  [heap |-> heap, q |-> m_tx_requests, tx |-> m_tx_request,
   timer |-> m_mbox_check_timer, busy |-> drv_busy,
   has_result |-> drv_has_result, result |-> drv_result, momsn |-> drv_momsn,
   mo_buffer |-> drv_mo_buffer, out |-> <<>>]

Emit(s, e) == [s EXCEPT !.out = Append(@, e)]

\* Task::sendTxRequestStatus: the status is addressed from the request's fields.
sendTxRequestStatus(s, r, code, text, n) ==
  Emit(s, [Event("status", r, code, n) EXCEPT !.text = text])

\* --------------------------------------------------------------- queue
\* Position of the first element with strictly greater time_to_live.
RECURSIVE InsertPos(_, _, _, _)
InsertPos(h, q, r, i) ==
  IF i > Len(q) THEN i
  ELSE IF h[r].ttl < h[q[i]].ttl THEN i
  ELSE InsertPos(h, q, r, i + 1)

InsertAt(q, i, r) == SubSeq(q, 1, i - 1) \o <<r>> \o SubSeq(q, i, Len(q))

\* enqueueTxRequest inserting at the end whatever the TTLs (push_back).
enqueueTxRequestAppend(s, r) == [s EXCEPT !.q = Append(@, r)]

\* enqueueTxRequest comparing with <= : insertion before an equal TTL.
RECURSIVE InsertPosLE(_, _, _, _)
InsertPosLE(h, q, r, i) ==
  IF i > Len(q) THEN i
  ELSE IF h[r].ttl <= h[q[i]].ttl THEN i
  ELSE InsertPosLE(h, q, r, i + 1)

enqueueTxRequestBeforeEqual(s, r) ==
  [s EXCEPT !.q = InsertAt(s.q, InsertPosLE(s.heap, s.q, r, 1), r)]

\* Task::enqueueTxRequest
enqueueTxRequest(s, r) ==
  [s EXCEPT !.q = InsertAt(s.q, InsertPos(s.heap, s.q, r, 1), r)]

\* Task::dequeueTxRequest
dequeueTxRequest(s, msn) ==
  IF s.tx = NULL THEN s
  ELSE IF ~s.heap[s.tx].msn_valid \/ s.heap[s.tx].msn # msn THEN s
  ELSE LET s1 == Emit([s EXCEPT !.mo_buffer = EmptyBuffer], Event("clearBufferMO", NULL, "", 0))
           s2 == sendTxRequestStatus(s1, s.tx, "OK", "", 0)
       IN [s2 EXCEPT !.heap = Delete(@, s.tx), !.tx = NULL]

\* invalidateTxRequest without its two guards: the status goes out whatever
\* the active slot holds.
invalidateTxRequestUnguarded(s, msn, err_code) ==
  [sendTxRequestStatus(s, s.tx, "ERROR", "failed with error", err_code)
     EXCEPT !.tx = NULL]

\* Task::invalidateTxRequest
invalidateTxRequest(s, msn, err_code) ==
  IF s.tx = NULL THEN s
  ELSE IF ~s.heap[s.tx].msn_valid \/ s.heap[s.tx].msn # msn THEN s
  ELSE LET s1 == [s EXCEPT !.heap = invalidateMSN(@, s.tx)]
           s2 == sendTxRequestStatus(s1, s.tx, "ERROR", "failed with error", err_code)
           s3 == enqueueTxRequest(s2, s.tx)
       IN [s3 EXCEPT !.tx = NULL]

\* Driver::readBufferMT answering bfr
readBufferMT(s, bfr) == Emit(s, Event("readBufferMT", NULL, bfr, Len(bfr)))

\* handleSBD taking the source address low byte first.
handleSBDLittleEndian(s, bfr) ==
  LET s1 == readBufferMT(s, bfr)
  IN IF Len(bfr) > 2
     THEN Emit(s1, Event("IridiumMsgRx", NULL, SubSeq(bfr, 3, Len(bfr)),
                         bfr[2] * 256 + bfr[1]))
     ELSE Emit(s1, Event("err", NULL, "", Len(bfr)))

\* Task::handleSBD, bfr being what Driver::readBufferMT returned
handleSBD(s, bfr) ==
  LET s1 == readBufferMT(s, bfr)
  IN IF Len(bfr) > 2
     THEN Emit(s1, Event("IridiumMsgRx", NULL, SubSeq(bfr, 3, Len(bfr)),
                         bfr[1] * 256 + bfr[2]))
     ELSE Emit(s1, Event("err", NULL, "", Len(bfr)))

\* handleSessionResult resetting the timer only once a request is confirmed.
handleSessionResultLateReset(s, bfr) ==
  LET res == s.result
      s0 == Emit([s EXCEPT !.has_result = FALSE],
                 Event("getSessionResult", NULL,
                       IF res.mo_success THEN "success" ELSE "failure",
                       res.mo_sequence))
      s1 == IF res.mo_success
            THEN LET d == dequeueTxRequest(s0, res.mo_sequence)
                 IN IF d.tx # s0.tx THEN [d EXCEPT !.timer = 0] ELSE d
            ELSE invalidateTxRequest(s0, res.mo_sequence, res.mo_status)
  IN IF res.mt_status = 1 THEN handleSBD(s1, bfr) ELSE s1

\* Task::handleSessionResult; Driver::getSessionResult consumes the result
handleSessionResult(s, bfr) ==
  LET res == s.result
      s0 == Emit([s EXCEPT !.has_result = FALSE],
                 Event("getSessionResult", NULL,
                       IF res.mo_success THEN "success" ELSE "failure",
                       res.mo_sequence))
      s1 == IF res.mo_success
            THEN dequeueTxRequest([s0 EXCEPT !.timer = 0], res.mo_sequence)
            ELSE invalidateTxRequest(s0, res.mo_sequence, res.mo_status)
  IN IF res.mt_status = 1 THEN handleSBD(s1, bfr) ELSE s1

\* Driver::checkMailBoxAlert and Driver::checkMailBox start a session
checkMailBoxAlert(s) ==
  Emit([s EXCEPT !.busy = TRUE], Event("checkMailBoxAlert", NULL, "", 0))

checkMailBox(s) ==
  Emit([s EXCEPT !.busy = TRUE], Event("checkMailBox", NULL, "", 0))

\* Driver::sendSBD fills the MO buffer and starts a session
sendSBD(s, data) ==
  Emit([s EXCEPT !.busy = TRUE, !.mo_buffer = data], Event("sendSBD", NULL, data, 0))

\* Counter::overflow of the mailbox check timer
overflow(s) == s.timer >= MboxTop

\* Task::processQueue, the send of the queue's head (else branch)
sendHead(s) ==
  LET request == Head(s.q)
      msn == s.momsn
      s1 == [s EXCEPT !.q = Tail(@), !.momsn = @ + 1,
                      !.heap = setMSN(@, request, msn)]
  IN sendSBD(s1, s1.heap[request].data)

\* A getter of the driver answering yes or no, or a number
Asked(s, getter, answer) ==
  Emit(s, Event(getter, NULL, IF answer THEN "yes" ELSE "no", 0))

AskedNumber(s, getter, n) == Emit(s, Event(getter, NULL, "", n))

\* The decision looking at the ring alert before the queue.
decideAlertFirst(s, env) ==
  LET s1 == Asked(s, "hasRingAlert", env.ring_alert)
  IN IF env.ring_alert THEN checkMailBoxAlert(s1)
     ELSE IF s.q = <<>>
     THEN LET s2 == AskedNumber(s1, "getQueuedMT", env.queued_mt)
          IN IF env.queued_mt > 0 \/ overflow(s2) THEN checkMailBox(s2)
             ELSE s2
     ELSE sendHead(s1)

\* Task::processQueue, the decision once the gates are passed (lines 306-320)
decide(s, env) ==
  IF s.q = <<>>
  THEN LET s1 == Asked(s, "hasRingAlert", env.ring_alert)
       IN IF env.ring_alert THEN checkMailBoxAlert(s1)
          ELSE LET s2 == AskedNumber(s1, "getQueuedMT", env.queued_mt)
               IN IF env.queued_mt > 0 \/ overflow(s2) THEN checkMailBox(s2)
                  ELSE s2
  ELSE sendHead(s)

\* processQueue going on although the driver is busy.
processQueueIgnoresBusy(s, env) ==
  LET s0 == Asked(s, "isBusy", s.busy)
      s1 == IF s0.has_result THEN handleSessionResult(s0, env.bfr) ELSE s0
      s2 == AskedNumber(s1, "getRSSI", env.rssi)
  IN IF env.rssi = 0 THEN s2
     ELSE LET s3 == Asked(s2, "isCooling", env.cooling)
          IN IF env.cooling THEN s3 ELSE decide(s3, env)

\* Task::processQueue; env is what the driver's getters answer in this cycle
processQueue(s, env) ==
  LET s0 == Asked(s, "isBusy", s.busy)
  IN IF s.busy THEN s0
     ELSE LET s1 == IF s0.has_result THEN handleSessionResult(s0, env.bfr) ELSE s0
              s2 == AskedNumber(s1, "getRSSI", env.rssi)
          IN IF env.rssi = 0 THEN s2
             ELSE LET s3 == Asked(s2, "isCooling", env.cooling)
                  IN IF env.cooling THEN s3 ELSE decide(s3, env)

\* The drain stopping with one request left (size() > 1 for !empty()).
RECURSIVE DrainButLast(_)
DrainButLast(s) ==
  IF Len(s.q) <= 1 THEN s
  ELSE LET req == Head(s.q)
           s1 == sendTxRequestStatus([s EXCEPT !.q = Tail(@)], req, "ERROR",
                                     "task is shutting down", 0)
       IN DrainButLast([s1 EXCEPT !.heap = Delete(@, req)])

\* The drain taking the requests from the back (back, pop_back).
RECURSIVE DrainFromBack(_)
DrainFromBack(s) ==
  IF s.q = <<>> THEN s
  ELSE LET req == s.q[Len(s.q)]
           s1 == sendTxRequestStatus([s EXCEPT !.q = SubSeq(@, 1, Len(@) - 1)],
                                     req, "ERROR", "task is shutting down", 0)
       IN DrainFromBack([s1 EXCEPT !.heap = Delete(@, req)])

\* Task::~Task, the drain of the queue
RECURSIVE Drain(_)
Drain(s) ==
  IF s.q = <<>> THEN s
  ELSE LET req == Head(s.q)
           s1 == sendTxRequestStatus([s EXCEPT !.q = Tail(@)], req, "ERROR",
                                     "task is shutting down", 0)
       IN Drain([s1 EXCEPT !.heap = Delete(@, req)])

\* Task::~Task
Destroy(s) ==
  Drain(IF s.tx = NULL THEN s
        ELSE [s EXCEPT !.heap = Delete(@, s.tx), !.tx = NULL])

\* consume reporting the new request twice.
consumeReportsTwice(s, ttl, data) ==
  LET request == Len(s.heap) + 1
      s0 == [s EXCEPT !.heap = Append(@, NewTxRequest(ttl, data))]
      s1 == enqueueTxRequest(s0, request)
      s2 == sendTxRequestStatus(s1, request, "QUEUED", "", 0)
  IN sendTxRequestStatus(s2, request, "QUEUED", "", 0)

\* Task::consume of a message with this time_to_live and payload
consume(s, ttl, data) ==
  LET request == Len(s.heap) + 1
      s0 == [s EXCEPT !.heap = Append(@, NewTxRequest(ttl, data))]
      s1 == enqueueTxRequest(s0, request)
  IN sendTxRequestStatus(s1, request, "QUEUED", "", 0)

\* ------------------------------------------------------------- actions
NoResult == [mo_success |-> FALSE, mo_sequence |-> 0, mo_status |-> 0, mt_status |-> 0]

Results ==
  {r \in [mo_success : BOOLEAN, mo_sequence : 0..MaxMSN,
          mo_status : StatusesMO, mt_status : StatusesMT] :
     r.mo_success <=> r.mo_status = 0}

Envs ==
  [rssi : {0, 1}, cooling : BOOLEAN, ring_alert : BOOLEAN, queued_mt : {0, 1},
   bfr : ReadsMT]

Apply(s) ==
  /\ heap' = s.heap
  /\ m_tx_requests' = s.q
  /\ m_tx_request' = s.tx
  /\ m_mbox_check_timer' = s.timer
  /\ drv_busy' = s.busy
  /\ drv_has_result' = s.has_result
  /\ drv_result' = IF s.has_result THEN s.result ELSE NoResult
  /\ drv_momsn' = s.momsn
  /\ drv_mo_buffer' = s.mo_buffer
  /\ out' = s.out

Init ==
  /\ heap = <<>>
  /\ m_tx_requests = <<>>
  /\ m_tx_request = NULL
  /\ m_mbox_check_timer = 0
  /\ drv_busy = FALSE
  /\ drv_has_result = FALSE
  /\ drv_result = NoResult
  /\ drv_momsn = 0
  /\ drv_mo_buffer = EmptyBuffer
  /\ out = <<>>
  /\ stopped = FALSE
  /\ ord_in = <<>>
  /\ ord_out = <<>>

\* Task::consume of an arriving IridiumMsgTx
Consume ==
  /\ ~stopped
  /\ Len(heap) < MaxReqs
  /\ \E ttl \in TTLs, data \in Payloads(Len(heap) + 1) :
       Apply(consume(State, ttl, data))
  /\ UNCHANGED <<stopped, ord_in, ord_out>>

\* One call of processQueue from Task::onMain
ProcessQueue ==
  /\ ~stopped
  /\ \E env \in Envs :
       /\ (~drv_busy /\ env.rssi # 0 /\ ~env.cooling /\ m_tx_requests # <<>>)
            => drv_momsn < MaxMSN
       /\ Apply(processQueue(State, env))
  /\ UNCHANGED <<stopped, ord_in, ord_out>>

\* The driver's session ends and leaves a result
DriverFinish ==
  /\ ~stopped
  /\ drv_busy
  /\ \E res \in Results :
       Apply([State EXCEPT !.busy = FALSE, !.has_result = TRUE, !.result = res])
  /\ UNCHANGED <<stopped, ord_in, ord_out>>

\* A second passes in Task::onMain (waitForMessages)
Tick ==
  /\ ~stopped
  /\ m_mbox_check_timer < MboxTop
  /\ Apply([State EXCEPT !.timer = @ + 1])
  /\ UNCHANGED <<stopped, ord_in, ord_out>>

\* The task stops and is destroyed
Shutdown ==
  /\ ~stopped
  /\ Apply(Destroy(State))
  /\ stopped' = TRUE
  /\ UNCHANGED <<ord_in, ord_out>>

Next == Consume \/ ProcessQueue \/ DriverFinish \/ Tick \/ Shutdown

Spec == Init /\ [][Next]_vars

\* ------------------------------------------------- service specification
\* The task is never destroyed, the cycles of Task::onMain keep coming with
\* service (RSSI nonzero, driver not cooling), and every session the driver
\* runs ends with MO success and the sequence number it handed out last.
GoodEnvs == {env \in Envs : env.rssi # 0 /\ ~env.cooling}

\* One call of processQueue from Task::onMain, with service
CycleInService ==
  /\ ~stopped
  /\ \E env \in GoodEnvs :
       /\ (~drv_busy /\ m_tx_requests # <<>>) => drv_momsn < MaxMSN
       /\ Apply(processQueue(State, env))
  /\ UNCHANGED <<stopped, ord_in, ord_out>>

\* The sequence number the driver handed out for the last send
LastHandedOut == IF drv_momsn > 0 THEN drv_momsn - 1 ELSE 0

\* The driver's session ends with MO success for the last send
SessionSucceeds ==
  /\ ~stopped
  /\ drv_busy
  /\ \E mt \in StatusesMT :
       Apply([State EXCEPT !.busy = FALSE, !.has_result = TRUE,
                           !.result = [mo_success |-> TRUE,
                                       mo_sequence |-> LastHandedOut,
                                       mo_status |-> 0, mt_status |-> mt]])
  /\ UNCHANGED <<stopped, ord_in, ord_out>>

NextLive == Consume \/ ProcessQueue \/ SessionSucceeds \/ Tick

SpecLive ==
  Init /\ [][NextLive]_vars /\ WF_vars(CycleInService) /\ WF_vars(SessionSucceeds)

\* ------------------------------------------------ ordering specification
\* enqueueTxRequest and the pop of the head, applied to a drawn sequence of
\* TTLs: every enqueue first, then every dequeue.
RECURSIVE SeqsUpTo(_, _)
SeqsUpTo(S, n) ==
  IF n = 0 THEN {<<>>}
  ELSE LET shorter == SeqsUpTo(S, n - 1)
       IN shorter \cup {Append(q, x) : q \in {p \in shorter : Len(p) = n - 1}, x \in S}

InitOrd ==
  /\ heap = <<>>
  /\ m_tx_requests = <<>>
  /\ m_tx_request = NULL
  /\ m_mbox_check_timer = 0
  /\ drv_busy = FALSE
  /\ drv_has_result = FALSE
  /\ drv_result = NoResult
  /\ drv_momsn = 0
  /\ drv_mo_buffer = EmptyBuffer
  /\ out = <<>>
  /\ stopped = FALSE
  /\ ord_in \in SeqsUpTo(OrdTTLs, MaxOrd)
  /\ ord_out = <<>>

\* enqueueTxRequest of a new request with the next TTL
OrdEnqueue ==
  /\ ord_in # <<>>
  /\ \E data \in Payloads(Len(heap) + 1) :
       LET request == Len(heap) + 1
           s0 == [State EXCEPT !.heap = Append(@, NewTxRequest(Head(ord_in), data))]
       IN Apply(enqueueTxRequest(s0, request))
  /\ ord_in' = Tail(ord_in)
  /\ UNCHANGED <<stopped, ord_out>>

\* front and pop_front of processQueue
OrdDequeue ==
  /\ ord_in = <<>>
  /\ m_tx_requests # <<>>
  /\ ord_out' = Append(ord_out, Head(m_tx_requests))
  /\ Apply([State EXCEPT !.q = Tail(@)])
  /\ UNCHANGED <<stopped, ord_in>>

NextOrd == OrdEnqueue \/ OrdDequeue

SpecOrd == InitOrd /\ [][NextOrd]_vars

\* ------------------------------------------------------------- claims
InQueue(r) == \E i \in DOMAIN m_tx_requests : m_tx_requests[i] = r

TimesInQueue(r) == Cardinality({i \in DOMAIN m_tx_requests : m_tx_requests[i] = r})

\* Requests whose send was started and that were neither confirmed (deleted
\* after OK) nor invalidated (sequence number invalid, back in the queue).
AwaitingResult ==
  {r \in DOMAIN heap : ~heap[r].freed /\ heap[r].msn_valid /\ ~InQueue(r)}

StatusesOf(o, code) == {i \in DOMAIN o : o[i].type = "status" /\ o[i].code = code}

Calls(o, type) == {i \in DOMAIN o : o[i].type = type}

\* The last step called sendSBD.
SendStarted == Calls(out, "sendSBD") # {}

\* The step is a cycle that resolved the session result.
Resolved == drv_has_result /\ ~drv_has_result'

\* C1: at most one request at a time has a send started and not yet resolved
\* (confirmed or invalidated): no send starts while another is unresolved.
C1_AtMostOneActive == Cardinality(AwaitingResult) <= 1

\* C2: a cycle that calls sendSBD leaves the request it removed from the queue
\* in the active slot, with the sequence number obtained from the driver, and
\* sendSBD got that request's payload.
C2_SendMakesActive ==
  SendStarted =>
    /\ m_tx_request # NULL
    /\ ~InQueue(m_tx_request)
    /\ heap[m_tx_request].msn_valid
    /\ heap[m_tx_request].msn = drv_momsn - 1
    /\ \A i \in Calls(out, "sendSBD") : out[i].code = heap[m_tx_request].data

\* C3: before shutdown every request not yet confirmed is held exactly once,
\* in the queue or in the active slot, never in both.
C3_NoRequestLost ==
  ~stopped =>
    \A r \in DOMAIN heap :
      ~heap[r].freed =>
        \/ TimesInQueue(r) = 1 /\ m_tx_request # r
        \/ TimesInQueue(r) = 0 /\ m_tx_request = r

\* C4: a failure result carrying the sequence number of the request awaiting
\* its result invalidates that number, emits one ERROR status with the MO
\* status code, requeues the request and leaves the active slot empty.
C4_FailureRequeues ==
  [][(/\ Resolved
      /\ ~SendStarted'
      /\ ~drv_result.mo_success
      /\ \E r \in AwaitingResult : heap[r].msn = drv_result.mo_sequence)
     => \E r \in AwaitingResult :
          /\ heap[r].msn = drv_result.mo_sequence
          /\ ~heap'[r].msn_valid
          /\ InQueue(r)'
          /\ m_tx_request' = NULL
          /\ Cardinality(StatusesOf(out', "ERROR")) = 1
          /\ \A i \in StatusesOf(out', "ERROR") :
               out'[i].req = r /\ out'[i].arg = drv_result.mo_status]_vars

\* C5: a success result carrying the sequence number of the request awaiting
\* its result resets the mailbox check timer, clears the MO buffer, emits
\* exactly one OK status for the request, deletes it and leaves the active
\* slot empty.
C5_SuccessConfirms ==
  [][(/\ Resolved
      /\ ~SendStarted'
      /\ drv_result.mo_success
      /\ \E r \in AwaitingResult : heap[r].msn = drv_result.mo_sequence)
     => \E r \in AwaitingResult :
          /\ heap[r].msn = drv_result.mo_sequence
          /\ m_mbox_check_timer' = 0
          /\ drv_mo_buffer' = EmptyBuffer
          /\ Calls(out', "clearBufferMO") # {}
          /\ Cardinality(StatusesOf(out', "OK")) = 1
          /\ \A i \in StatusesOf(out', "OK") : out'[i].req = r
          /\ heap'[r].freed
          /\ ~InQueue(r)'
          /\ m_tx_request' = NULL]_vars

\* Requests taken from the queue for sending and not deleted.
Active == {r \in DOMAIN heap : ~heap[r].freed /\ ~InQueue(r)}

AnyStatus(o) == {i \in DOMAIN o : o[i].type = "status"}

\* C6: a cycle that resolves a result whose MO sequence number is not the valid
\* sequence number of any active request, and that starts no send, leaves the
\* queue and the active slot as they were and emits no status.
C6_StaleResultIgnored ==
  [][(/\ Resolved
      /\ ~SendStarted'
      /\ Active # {}
      /\ \A r \in Active :
           ~heap[r].msn_valid \/ heap[r].msn # drv_result.mo_sequence)
     => /\ m_tx_requests' = m_tx_requests
        /\ m_tx_request' = m_tx_request
        /\ AnyStatus(out') = {}]_vars

\* A result was resolved whose sequence number no active request holds.
C6_Witness ==
  /\ Active # {}
  /\ AnyStatus(out) = {}
  /\ ~SendStarted
  /\ \E i \in Calls(out, "getSessionResult") :
       \A r \in Active : heap[r].msn_valid /\ heap[r].msn # out[i].arg

\* C7 as stated: with no active request, a cycle that resolves a result and
\* starts no send reports no status and changes neither the queue, the active
\* slot nor the mailbox check timer.
C7_NoActiveNothingChanges ==
  [][(Resolved /\ ~SendStarted' /\ Active = {} /\ m_tx_request = NULL)
     => /\ AnyStatus(out') = {}
        /\ m_tx_requests' = m_tx_requests
        /\ m_tx_request' = NULL
        /\ m_mbox_check_timer' = m_mbox_check_timer]_vars

\* C7 amended: with no active request, a cycle that resolves a result and
\* starts no send reports no status and changes neither the queue nor the
\* active slot; the mailbox check timer is reset when the result reports MO
\* success and is left alone otherwise, and inbound handling runs exactly
\* when the MT status code is 1.
C7_NoActiveNoStatus ==
  [][(Resolved /\ ~SendStarted' /\ Active = {} /\ m_tx_request = NULL)
     => /\ AnyStatus(out') = {}
        /\ m_tx_requests' = m_tx_requests
        /\ m_tx_request' = NULL
        /\ m_mbox_check_timer' =
             IF drv_result.mo_success THEN 0 ELSE m_mbox_check_timer
        /\ (Calls(out', "IridiumMsgRx") \cup Calls(out', "err") # {})
             <=> drv_result.mt_status = 1]_vars

\* A success result was resolved with no active request: no status went out
\* and the timer stands reset.
C7_Witness ==
  /\ Active = {}
  /\ m_tx_request = NULL
  /\ AnyStatus(out) = {}
  /\ m_mbox_check_timer = 0
  /\ \E i \in Calls(out, "getSessionResult") : out[i].code = "success"

\* The request the last send took from the queue: the one holding the last
\* sequence number handed out.
LastSent ==
  {r \in DOMAIN heap : heap[r].msn_valid /\ heap[r].msn = drv_momsn - 1}

QueueSorted ==
  \A i, j \in DOMAIN m_tx_requests :
    i < j => heap[m_tx_requests[i]].ttl <= heap[m_tx_requests[j]].ttl

\* C9: the queue is ordered ascending by time_to_live in every reachable
\* state, and the request a send has just removed has a time_to_live no
\* greater than that of any request left in the queue.
C9_QueueSortedHeadSent ==
  /\ QueueSorted
  /\ SendStarted =>
       /\ LastSent # {}
       /\ \A r \in LastSent, i \in DOMAIN m_tx_requests :
            ~InQueue(r) /\ heap[r].ttl <= heap[m_tx_requests[i]].ttl

\* A send removed a request that had arrived after a request of greater
\* time_to_live that is still queued.
C9_Witness ==
  /\ SendStarted
  /\ \E r \in LastSent, i \in DOMAIN m_tx_requests :
       m_tx_requests[i] < r /\ heap[r].ttl < heap[m_tx_requests[i]].ttl

\* The stable sort by time_to_live of the requests of S, addresses being
\* given out in the order of insertion.
RECURSIVE StableSort(_)
StableSort(S) ==
  IF S = {} THEN <<>>
  ELSE LET first == CHOOSE r \in S :
                      \A o \in S : \/ heap[r].ttl < heap[o].ttl
                                   \/ heap[r].ttl = heap[o].ttl /\ r <= o
       IN <<first>> \o StableSort(S \ {first})

\* C10: for every sequence of enqueues, the requests dequeued so far followed
\* by those still queued are the stable sort of the inserted requests by
\* time_to_live: equal TTLs leave in the order of insertion.
C10_StableOrder == ord_out \o m_tx_requests = StableSort(DOMAIN heap)

\* TTLs 5, 1, 3, 1 were enqueued and left as the first 1, the second 1, 3, 5.
C10_Witness ==
  /\ ord_in = <<>>
  /\ m_tx_requests = <<>>
  /\ [i \in DOMAIN heap |-> heap[i].ttl] = <<5, 1, 3, 1>>
  /\ ord_out = <<2, 4, 3, 1>>

\* The cycle ran: processQueue was called in the last step.
CycleRan(o) == Calls(o, "isBusy") # {}

\* What a getter answered in the last cycle, when it was asked.
Answers(o, getter) == {o[i].code : i \in Calls(o, getter)}

Numbers(o, getter) == {o[i].arg : i \in Calls(o, getter)}

Position(r) == CHOOSE i \in DOMAIN m_tx_requests : m_tx_requests[i] = r

\* C11: a request whose send fails is reinserted into the queue with the
\* time_to_live it arrived with, behind every queued request of strictly
\* lower time_to_live, so that such a request is the one sent next.
C11_RequeueKeepsTTL ==
  [][(/\ Resolved
      /\ ~SendStarted'
      /\ ~drv_result.mo_success
      /\ \E r \in AwaitingResult : heap[r].msn = drv_result.mo_sequence)
     => \E r \in AwaitingResult :
          /\ heap[r].msn = drv_result.mo_sequence
          /\ heap'[r].ttl = heap[r].ttl
          /\ InQueue(r)'
          /\ \A i \in DOMAIN m_tx_requests' :
               heap'[m_tx_requests'[i]].ttl < heap'[r].ttl => i < Position(r)']_vars

\* The step destroys the task.
ShutdownStep == ~stopped /\ stopped'

\* C12 as stated: shutdown emits one ERROR status per queued request plus one
\* when there is an active request, and leaves the queue and the active slot
\* empty.
C12_ShutdownReportsAllHeld ==
  [][ShutdownStep
     => /\ Cardinality(StatusesOf(out', "ERROR"))
             = Len(m_tx_requests) + (IF Active # {} THEN 1 ELSE 0)
        /\ m_tx_requests' = <<>>
        /\ m_tx_request' = NULL]_vars

\* C12 amended: shutdown emits exactly one ERROR status per queued request
\* and none for an active request (2 queued and 1 active give 2), and leaves
\* the queue and the active slot empty.
C12_ShutdownReportsQueued ==
  [][ShutdownStep
     => /\ Cardinality(StatusesOf(out', "ERROR")) = Len(m_tx_requests)
        /\ \A r \in DOMAIN heap :
             Cardinality({i \in StatusesOf(out', "ERROR") : out'[i].req = r})
               = IF InQueue(r) THEN 1 ELSE 0
        /\ m_tx_requests' = <<>>
        /\ m_tx_request' = NULL]_vars

\* The task was destroyed with two requests queued and one sent and awaiting
\* its result: two ERROR statuses went out.
C12_Witness ==
  /\ stopped
  /\ AwaitingResult # {}
  /\ Cardinality(StatusesOf(out, "ERROR")) = 2
  /\ m_tx_requests = <<>>

\* C13: shutdown emits no status for an active request, and reports every
\* queued request once, in queue order, with an ERROR status whose text is
\* the shutdown reason; the queued requests are deleted and the queue and the
\* active slot are empty afterwards.
C13_ShutdownDrainsInOrder ==
  [][ShutdownStep
     => /\ out' = [i \in 1..Len(m_tx_requests) |->
                     [type |-> "status", req |-> m_tx_requests[i],
                      code |-> "ERROR", text |-> "task is shutting down",
                      arg |-> 0]]
        /\ \A r \in Active : \A i \in AnyStatus(out') : out'[i].req # r
        /\ \A i \in DOMAIN m_tx_requests : heap'[m_tx_requests[i]].freed
        /\ m_tx_requests' = <<>>
        /\ m_tx_request' = NULL]_vars

\* The task was destroyed with a request sent and awaiting its result and
\* two queued, the one that arrived later first in the queue.
C13_Witness ==
  /\ stopped
  /\ AwaitingResult # {}
  /\ Len(out) = 2
  /\ out[1].type = "status" /\ out[2].type = "status"
  /\ out[1].req > out[2].req

\* The driver calls that start a session, in the events of a step.
Triggers(o) ==
  Calls(o, "sendSBD") \cup Calls(o, "checkMailBoxAlert") \cup Calls(o, "checkMailBox")

\* C14: a decision cycle that finds the driver busy does nothing: it asks
\* the driver nothing beyond isBusy, consumes no session result, emits no
\* status, starts no send and no mailbox check, and leaves the requests, the
\* queue, the active slot, the mailbox check timer and the driver unchanged.
C14_BusyCycleDoesNothing ==
  [][(drv_busy /\ CycleRan(out'))
     => /\ out' = <<[type |-> "isBusy", req |-> NULL, code |-> "yes",
                     text |-> "", arg |-> 0]>>
        /\ UNCHANGED <<heap, m_tx_requests, m_tx_request, m_mbox_check_timer,
                       drv_busy, drv_has_result, drv_result, drv_momsn,
                       drv_mo_buffer>>]_vars

\* A cycle found the driver busy while a request was queued and the mailbox
\* check timer had overflowed.
C14_Witness ==
  /\ drv_busy
  /\ Len(out) = 1 /\ out[1].type = "isBusy" /\ out[1].code = "yes"
  /\ m_tx_requests # <<>>
  /\ m_mbox_check_timer >= MboxTop

\* The step is a cycle that found the driver not busy and stopped at the
\* RSSI gate or at the cooling gate.
GatedCycle ==
  /\ ~drv_busy
  /\ CycleRan(out')
  /\ 0 \in Numbers(out', "getRSSI") \/ "yes" \in Answers(out', "isCooling")

\* What holds of a gated cycle whatever the result: nothing is triggered,
\* no request leaves the queue, and a pending result is consumed and its
\* inbound handling run exactly when its MT status is 1.
GatedCycleStops ==
  /\ Triggers(out') = {}
  /\ drv_momsn' = drv_momsn
  /\ \A r \in DOMAIN heap : InQueue(r) => InQueue(r)'
  /\ drv_has_result
       => /\ ~drv_has_result'
          /\ Calls(out', "getSessionResult") # {}
          /\ Calls(out', "readBufferMT") # {} <=> drv_result.mt_status = 1

\* C15: in a cycle where the driver is not busy and RSSI is zero or the
\* driver is cooling, no send and no mailbox check is triggered and the queue
\* is not popped, yet a pending session result is still resolved: the request
\* awaiting it gets its status and is released (on success) or requeued (on
\* failure), and inbound handling is run.
C15_GatedCycleStillResolves ==
  [][GatedCycle
     => /\ GatedCycleStops
        /\ drv_has_result
             => \A r \in AwaitingResult :
                  heap[r].msn = drv_result.mo_sequence
                    => /\ \E i \in AnyStatus(out') : out'[i].req = r
                       /\ IF drv_result.mo_success THEN heap'[r].freed
                          ELSE InQueue(r)']_vars

\* The part of C15 that does not depend on a request being resolved: every
\* gated cycle stops as described.
GatedCycleStopsAlways == [][GatedCycle => GatedCycleStops]_vars

\* A cycle without service consumed a result and emitted an inbound message
\* while a request stayed queued.
GatedCycleSeen ==
  /\ Numbers(out, "getRSSI") = {0}
  /\ Calls(out, "IridiumMsgRx") # {}
  /\ m_tx_requests # <<>>

\* The step is a cycle that passed the busy, RSSI and cooling gates.
DecidingCycle ==
  /\ ~drv_busy
  /\ CycleRan(out')
  /\ Answers(out', "isCooling") = {"no"}

\* C16: every step triggers at most one of send, mailbox alert check and
\* mailbox check. A cycle that passes the gates with a non-empty queue starts
\* exactly one send and no mailbox check of either kind; with an empty queue
\* and the ring alert set it triggers only the mailbox alert check; with an
\* empty queue and no ring alert it triggers the mailbox check exactly when
\* queued_mt > 0 or the mailbox check timer has overflowed, and nothing else.
C16_OneTriggerByPrecedence ==
  [][/\ Cardinality(Triggers(out')) <= 1
     /\ (DecidingCycle /\ m_tx_requests # <<>>)
          => /\ Cardinality(Calls(out', "sendSBD")) = 1
             /\ Triggers(out') = Calls(out', "sendSBD")
     /\ (DecidingCycle /\ m_tx_requests = <<>>)
          => /\ Cardinality(Calls(out', "hasRingAlert")) = 1
             /\ Answers(out', "hasRingAlert") = {"yes"}
                  => /\ Calls(out', "checkMailBoxAlert") # {}
                     /\ Triggers(out') = Calls(out', "checkMailBoxAlert")
             /\ Answers(out', "hasRingAlert") = {"no"}
                  => /\ Triggers(out') = Calls(out', "checkMailBox")
                     /\ Cardinality(Calls(out', "getQueuedMT")) = 1
                     /\ Calls(out', "checkMailBox") # {}
                          <=> \/ \E n \in Numbers(out', "getQueuedMT") : n > 0
                              \/ m_mbox_check_timer' >= MboxTop]_vars

\* A cycle with the queue empty, no ring alert and no MT message queued
\* triggered the mailbox check because the timer had overflowed.
C16_Witness ==
  /\ m_tx_requests = <<>>
  /\ Answers(out, "hasRingAlert") = {"no"}
  /\ Numbers(out, "getQueuedMT") = {0}
  /\ m_mbox_check_timer >= MboxTop
  /\ Calls(out, "checkMailBox") # {}

\* The statuses about request r in the events o.
StatusesAbout(o, r) == {i \in AnyStatus(o) : o[i].req = r}

\* C17: a request arrives, is inserted into the queue and is reported QUEUED
\* in one step: the step that creates a request emits exactly one status,
\* the QUEUED of that request, which is then in the queue; QUEUED is emitted
\* in no other step, and every other status is about a request that existed
\* (and so was reported QUEUED) before the step.
C17_QueuedOnceAndFirst ==
  [][/\ Len(heap') > Len(heap)
          => /\ Len(heap') = Len(heap) + 1
             /\ \E i \in DOMAIN m_tx_requests' : m_tx_requests'[i] = Len(heap')
             /\ AnyStatus(out') = {1}
             /\ out'[1].code = "QUEUED" /\ out'[1].req = Len(heap')
     /\ \A i \in StatusesOf(out', "QUEUED") :
          /\ out'[i].req = Len(heap')
          /\ Len(heap') > Len(heap)
     /\ \A i \in AnyStatus(out') \ StatusesOf(out', "QUEUED") :
          out'[i].req \in DOMAIN heap]_vars

\* A request arrived while another was queued: it is in the queue, ahead of
\* the older one, and its QUEUED status is the only event of the step.
C17_Witness ==
  /\ Len(out) = 1
  /\ out[1].type = "status" /\ out[1].code = "QUEUED"
  /\ Len(m_tx_requests) >= 2
  /\ m_tx_requests[1] = out[1].req
  /\ out[1].req = Len(heap)

\* C18: inbound handling (a read of the MT buffer) runs in a step exactly
\* when the step resolves a session result whose MT status is 1, whatever the
\* MO outcome, and reads once. A read of more than 2 bytes emits one inbound
\* message whose source is the first two bytes taken big-endian and whose
\* payload is the rest; a read of 2 bytes or fewer emits no message.
C18_InboundHandling ==
  [][/\ Calls(out', "readBufferMT") # {}
          <=> (Resolved /\ drv_result.mt_status = 1)
     /\ Cardinality(Calls(out', "readBufferMT")) <= 1
     /\ Calls(out', "IridiumMsgRx") # {} => Calls(out', "readBufferMT") # {}
     /\ \A k \in Calls(out', "readBufferMT") :
          LET bfr == out'[k].code
          IN IF Len(bfr) > 2
             THEN /\ Cardinality(Calls(out', "IridiumMsgRx")) = 1
                  /\ \A i \in Calls(out', "IridiumMsgRx") :
                       /\ out'[i].arg = bfr[1] * 256 + bfr[2]
                       /\ out'[i].code = SubSeq(bfr, 3, Len(bfr))
             ELSE Calls(out', "IridiumMsgRx") = {}]_vars

\* A result with MO failure and MT status 1 was resolved and the read of
\* 0x00 0x01 0xAA 0xBB 0xCC gave a message from source 1 with payload
\* 0xAA 0xBB 0xCC.
C18_Witness ==
  /\ \E i \in Calls(out, "getSessionResult") : out[i].code = "failure"
  /\ \E i \in Calls(out, "readBufferMT") : out[i].code = <<0, 1, 170, 187, 204>>
  /\ \E i \in Calls(out, "IridiumMsgRx") :
       out[i].arg = 1 /\ out[i].code = <<170, 187, 204>>

\* A read of 2 bytes was handled and no message was emitted.
ShortReadSeen ==
  /\ \E i \in Calls(out, "readBufferMT") : out[i].arg = 2
  /\ Calls(out, "IridiumMsgRx") = {}

\* C19: a cycle that resolves a failure result for the request awaiting it
\* goes on to the gates and the decision on the updated state: when it passes
\* the gates and the queue held nothing else, the request just requeued is
\* the head, so the same cycle sends it again, with the sequence number the
\* driver hands out for this send as its valid sequence number.
C19_ResentInSameCycle ==
  [][(/\ Resolved /\ ~drv_result.mo_success
      /\ DecidingCycle
      /\ m_tx_requests = <<>>)
     => \A r \in AwaitingResult :
          heap[r].msn = drv_result.mo_sequence
            => /\ \E i \in Calls(out', "sendSBD") : out'[i].code = heap[r].data
               /\ heap'[r].msn_valid
               /\ heap'[r].msn = drv_momsn
               /\ drv_momsn' = drv_momsn + 1]_vars

\* The part of C19 that is about the cycle alone: a cycle that resolved a
\* result went on and triggered a send or a mailbox check.
CycleWentOnAfterResolution ==
  /\ Calls(out, "getSessionResult") # {}
  /\ Triggers(out) # {}

\* C20: with the task never shut down, finitely many arrivals, cycles with
\* service that keep coming and every session ending with MO success and the
\* sequence number handed out for the send, every request reported QUEUED is
\* eventually reported OK, and from some time on the queue is empty and no
\* request is awaiting a result.
C20_EveryRequestConfirmed ==
  /\ \A r \in 1..MaxReqs :
       (r \in DOMAIN heap) ~> (\E i \in StatusesOf(out, "OK") : out[i].req = r)
  /\ <>[](m_tx_requests = <<>> /\ AwaitingResult = {})

====
